---- MODULE Spec2Model ----
(***************************************************************************)
(* Model of the natural-language-to-SQL pipeline of the RedShift chatbot:  *)
(* modules/utils.py (sanitize_sql, validate_sql_safety),                   *)
(* modules/bedrock_client.py (generate_sql, format_response),              *)
(* modules/redshift_client.py (execute_query, get_schema) and              *)
(* modules/query_generator.py (generate_and_execute, _get_schema_info).    *)
(*                                                                         *)
(* Text is modelled character by character: a Python str is a sequence of  *)
(* one-character strings, so that upper(), strip(), startswith(), count()  *)
(* and the regular expressions of the source are computed as the source    *)
(* computes them.                                                          *)
(***************************************************************************)
EXTENDS Integers, Sequences, FiniteSets, TLC

VARIABLES
    init_ok,            \* QueryGenerator.__init__ built both clients
    pool_ok,            \* RedShiftClient.connection_pool is not None
    now,                \* time.time(), seconds
    db,                 \* the warehouse: the tables of the target schema
    schema_cache,       \* QueryGenerator.schema_cache
    schema_cache_time,  \* QueryGenerator.schema_cache_time
    checked_out,        \* connections taken from the pool and not put back
    rq,                 \* the requests: locals and position of each
    vin,      \* validator harness: the SQL text handed to validate_sql_safety
    vn,       \* validator harness: number of fragments the text was built from
    vout,     \* validator harness: the (is_valid, error_message) it returned, or NoResult
    pool_exec,    \* pool harness: per execution, "idle" or "conn" (holds a connection)
    pool_result   \* pool harness: what the last get_connection / return_connection did

vvars == <<vin, vn, vout, pool_exec, pool_result>>
pvars == <<init_ok, pool_ok, now, db, schema_cache, schema_cache_time, checked_out, rq>>
vars == <<pvars, vvars>>

(***************************************************************************)
(* Bounds of the model.                                                    *)
(***************************************************************************)
\* the longest text of the validator harness, in fragments
MaxFrags == 3
\* the number of concurrent requests
NumReq == 2
\* the number of concurrent executions of the pool harness: one more than the
\* pool has connections
NumExec == 11
\* the clock advances in steps of TickStep seconds up to MaxNow
TickStep == 300
MaxNow == 300

(***************************************************************************)
(* Python str primitives.                                                  *)
(***************************************************************************)
LowerLetters == <<"a","b","c","d","e","f","g","h","i","j","k","l","m","n","o","p","q","r","s","t","u","v","w","x","y","z">>
UpperLetters == <<"A","B","C","D","E","F","G","H","I","J","K","L","M","N","O","P","Q","R","S","T","U","V","W","X","Y","Z">>
Digits == {"0","1","2","3","4","5","6","7","8","9"}

Range(s) == {s[i] : i \in 1..Len(s)}

LowerSet == Range(LowerLetters)
WhiteSpace == {" ", "\n", "\t", "\r", "\f"}
WordChars == Range(LowerLetters) \cup Range(UpperLetters) \cup Digits \cup {"_"}
UpperOf == [c \in LowerSet |-> UpperLetters[CHOOSE i \in 1..Len(LowerLetters) : LowerLetters[i] = c]]

\* str.isspace() of one character (ASCII whitespace)
IsSpace(c) == c \in WhiteSpace

\* the regular-expression class \w (ASCII letters, digits, underscore)
IsWordChar(c) == c \in WordChars

\* str.upper() of one character
UpperChar(c) == IF c \in LowerSet THEN UpperOf[c] ELSE c

\* str.upper() (the concatenation with the empty text makes the result a tuple)
Upper(s) == [i \in 1..Len(s) |-> UpperChar(s[i])] \o <<>>

\* s[a-1:b] of Python, 1-based and inclusive here; empty when a > b
Slice(s, a, b) == IF a > b THEN <<>> ELSE SubSeq(s, a, b)

\* str.startswith(p)
StartsWith(s, p) == Len(p) <= Len(s) /\ SubSeq(s, 1, Len(p)) = p

\* str.endswith(p)
EndsWith(s, p) == Len(p) <= Len(s) /\ SubSeq(s, Len(s) - Len(p) + 1, Len(s)) = p

\* the first position from i on, going up, whose character is not whitespace
\* (Len(s) + 1 when there is none)
RECURSIVE SkipSpaceUp(_, _)
SkipSpaceUp(s, i) == IF i > Len(s) \/ ~IsSpace(s[i]) THEN i ELSE SkipSpaceUp(s, i + 1)

\* the first position from i on, going down, whose character is not whitespace
\* (0 when there is none)
RECURSIVE SkipSpaceDown(_, _)
SkipSpaceDown(s, i) == IF i < 1 \/ ~IsSpace(s[i]) THEN i ELSE SkipSpaceDown(s, i - 1)

\* the first position from i on holding the character c (Len(s) + 1 when none)
RECURSIVE Find(_, _, _)
Find(s, c, i) == IF i > Len(s) \/ s[i] = c THEN i ELSE Find(s, c, i + 1)

\* str.lstrip(): drop leading whitespace
LStrip(s) == Slice(s, SkipSpaceUp(s, 1), Len(s))

\* str.rstrip(): drop trailing whitespace
RStrip(s) == Slice(s, 1, SkipSpaceDown(s, Len(s)))

\* str.strip()
Strip(s) == LStrip(RStrip(s))

\* str.count(c) for a one-character c
Count(s, c) == Cardinality({i \in 1..Len(s) : s[i] = c})

\* p occurs in s at position i
OccursAt(s, p, i) == i >= 1 /\ i + Len(p) - 1 <= Len(s) /\ SubSeq(s, i, i + Len(p) - 1) = p

\* p in s
Contains(s, p) == \E i \in 1..(Len(s) + 1) : OccursAt(s, p, i)


(***************************************************************************)
(* modules/utils.py: validate_sql_safety                                   *)
(***************************************************************************)

KW_DROP == <<"D","R","O","P">>
KW_DELETE == <<"D","E","L","E","T","E">>
KW_INSERT == <<"I","N","S","E","R","T">>
KW_UPDATE == <<"U","P","D","A","T","E">>
KW_ALTER == <<"A","L","T","E","R">>
KW_CREATE == <<"C","R","E","A","T","E">>
KW_TRUNCATE == <<"T","R","U","N","C","A","T","E">>
KW_GRANT == <<"G","R","A","N","T">>
KW_REVOKE == <<"R","E","V","O","K","E">>
KW_EXEC == <<"E","X","E","C">>
KW_EXECUTE == <<"E","X","E","C","U","T","E">>

\* dangerous_keywords, in the order of the list
dangerous_keywords ==
    <<KW_DROP, KW_DELETE, KW_INSERT, KW_UPDATE, KW_ALTER, KW_CREATE,
      KW_TRUNCATE, KW_GRANT, KW_REVOKE, KW_EXEC, KW_EXECUTE>>

STR_SELECT == <<"S","E","L","E","C","T">>
MSG_DANGEROUS == <<"D","a","n","g","e","r","o","u","s"," ","S","Q","L"," ","k","e","y","w","o","r","d"," ","d","e","t","e","c","t","e","d",":"," ">>
MSG_MUST_SELECT == <<"Q","u","e","r","y"," ","m","u","s","t"," ","s","t","a","r","t"," ","w","i","t","h"," ","S","E","L","E","C","T">>
MSG_MULTIPLE == <<"M","u","l","t","i","p","l","e"," ","S","Q","L"," ","s","t","a","t","e","m","e","n","t","s"," ","n","o","t"," ","a","l","l","o","w","e","d">>

\* mutant of the keyword search: a plain substring search, no word boundaries
WordSearch_substring(keyword, text) == Contains(text, keyword)

\* re.search(r'\b' + keyword + r'\b', text): the keyword occurs with a word
\* boundary on both sides (every keyword begins and ends with a letter, so a
\* boundary is the edge of the text or a neighbour that is not a \w character)
WordSearch(keyword, text) ==
    \E i \in 1..Len(text) :
        /\ OccursAt(text, keyword, i)
        /\ (i = 1 \/ ~IsWordChar(text[i - 1]))
        /\ (i + Len(keyword) > Len(text) \/ ~IsWordChar(text[i + Len(keyword)]))

\* the for loop over dangerous_keywords: index of the first keyword found, 0 if none
FirstDangerous(sql_upper) ==
    LET hits == {k \in 1..Len(dangerous_keywords) : WordSearch(dangerous_keywords[k], sql_upper)}
    IN  IF hits = {} THEN 0 ELSE CHOOSE k \in hits : \A j \in hits : k <= j

\* mutant of the semicolon check: the trailing whitespace is not trimmed
MultipleStatements_no_rstrip(sql) ==
    LET semicolon_count == Count(sql, ";")
    IN  \/ semicolon_count > 1
        \/ semicolon_count = 1 /\ ~EndsWith(sql, <<";">>)

\* the semicolon check: TRUE when the text is refused as multiple statements
MultipleStatements(sql) ==
    LET semicolon_count == Count(sql, ";")
    IN  \/ semicolon_count > 1
        \/ semicolon_count = 1 /\ ~EndsWith(RStrip(sql), <<";">>)

\* mutant of validate_sql_safety: the keywords are searched in sql, not in sql.upper()
validate_sql_safety_case_sensitive(sql) ==
    LET k == FirstDangerous(sql)
    IN  IF k # 0 THEN <<FALSE, MSG_DANGEROUS \o dangerous_keywords[k]>>
        ELSE IF ~StartsWith(Strip(Upper(sql)), STR_SELECT) THEN <<FALSE, MSG_MUST_SELECT>>
        ELSE IF MultipleStatements(sql) THEN <<FALSE, MSG_MULTIPLE>>
        ELSE <<TRUE, <<>>>>

\* mutant of validate_sql_safety: the SELECT rule is missing
validate_sql_safety_no_select_rule(sql) ==
    LET k == FirstDangerous(Upper(sql))
    IN  IF k # 0 THEN <<FALSE, MSG_DANGEROUS \o dangerous_keywords[k]>>
        ELSE IF MultipleStatements(sql) THEN <<FALSE, MSG_MULTIPLE>>
        ELSE <<TRUE, <<>>>>

\* mutant of validate_sql_safety: the SELECT rule comes before the keyword rule
validate_sql_safety_select_first(sql) ==
    LET k == FirstDangerous(Upper(sql))
    IN  IF ~StartsWith(Strip(Upper(sql)), STR_SELECT) THEN <<FALSE, MSG_MUST_SELECT>>
        ELSE IF k # 0 THEN <<FALSE, MSG_DANGEROUS \o dangerous_keywords[k]>>
        ELSE IF MultipleStatements(sql) THEN <<FALSE, MSG_MULTIPLE>>
        ELSE <<TRUE, <<>>>>

\* validate_sql_safety(sql) -> (is_valid, error_message)
validate_sql_safety(sql) ==
    LET sql_upper == Upper(sql)
        k == FirstDangerous(sql_upper)
    IN  IF k # 0 THEN <<FALSE, MSG_DANGEROUS \o dangerous_keywords[k]>>
        ELSE IF ~StartsWith(Strip(sql_upper), STR_SELECT) THEN <<FALSE, MSG_MUST_SELECT>>
        ELSE IF MultipleStatements(sql) THEN <<FALSE, MSG_MULTIPLE>>
        ELSE <<TRUE, <<>>>>


(***************************************************************************)
(* modules/utils.py: sanitize_sql                                          *)
(***************************************************************************)
\* the rest of s from its first newline on (the newline included), or the
\* empty text when s has no newline: what is left of a line once '.*$' has
\* consumed it
FromNewline(s) == Slice(s, Find(s, "\n", 1), Len(s))

\* re.sub(r'--.*$', '', sql, flags=re.MULTILINE)
RECURSIVE RemoveLineComments(_)
RemoveLineComments(s) ==
    IF s = <<>> THEN <<>>
    ELSE IF StartsWith(s, <<"-","-">>) THEN RemoveLineComments(FromNewline(s))
    ELSE <<Head(s)>> \o RemoveLineComments(Tail(s))

\* re.sub(r'/\*.*?\*/', '', sql, flags=re.DOTALL): each '/*' is removed up to
\* the nearest following '*/'; an unclosed '/*' stays
RECURSIVE RemoveBlockComments(_)
RemoveBlockComments(s) ==
    IF s = <<>> THEN <<>>
    ELSE LET closes == {j \in 3..Len(s) : OccursAt(s, <<"*","/">>, j)}
         IN  IF StartsWith(s, <<"/","*">>) /\ closes # {}
             THEN RemoveBlockComments(
                      Slice(s, (CHOOSE j \in closes : \A k \in closes : j <= k) + 2, Len(s)))
             ELSE <<Head(s)>> \o RemoveBlockComments(Tail(s))

\* ' '.join(sql.split()): runs of whitespace become one space, none at the ends
RECURSIVE JoinSplit(_)
JoinSplit(s) ==
    LET t == LStrip(s)
        ws == {i \in 1..Len(t) : IsSpace(t[i])}
        first == CHOOSE i \in ws : \A j \in ws : j >= i
        rest == JoinSplit(Slice(t, first, Len(t)))
    IN  IF t = <<>> THEN <<>>
        ELSE IF ws = {} THEN t
        ELSE IF rest = <<>> THEN Slice(t, 1, first - 1)
        ELSE Slice(t, 1, first - 1) \o <<" ">> \o rest

\* sanitize_sql(sql)
sanitize_sql(sql) == Strip(JoinSplit(RemoveBlockComments(RemoveLineComments(sql))))

(***************************************************************************)
(* modules/bedrock_client.py: _extract_sql_from_response                   *)
(***************************************************************************)
\* the grave accent cannot be written in a TLA+ string: the atom "BACKTICK"
\* stands for that one character
FENCE == <<"BACKTICK","BACKTICK","BACKTICK">>

\* sql.split('\n', 1)[1]: the text after the first newline
AfterFirstNewline(s) == Slice(FromNewline(s), 2, Len(FromNewline(s)))

\* _extract_sql_from_response(response)
extract_sql_from_response(response) ==
    LET sql0 == Strip(response)
        sql1 == IF "\n" \in Range(sql0) THEN AfterFirstNewline(sql0) ELSE sql0
        sql2 == IF EndsWith(sql1, FENCE) THEN Slice(sql1, 1, Len(sql1) - 3) ELSE sql1
    IN  IF StartsWith(sql0, FENCE) THEN Strip(sql2) ELSE Strip(sql0)

(***************************************************************************)
(* Configuration and literals of the pipeline.                             *)
(***************************************************************************)
\* Optional values: None is the empty tuple, a present value x is <<x>>
None == <<>>
Some(x) == <<x>>

\* Config.MAX_RESULT_ROWS is read from the environment (default '1000'); the
\* model runs with a small configured value so that truncation happens, yet
\* above the 10 rows the formatting prompt shows
MAX_RESULT_ROWS == 11
\* Config.MAX_QUERY_TIMEOUT, seconds
MAX_QUERY_TIMEOUT == 30
\* timeout_seconds=120 of the schema queries
SCHEMA_QUERY_TIMEOUT == 120
\* maxconn of the SimpleConnectionPool
maxconn == 10
\* cache_duration of _get_schema_info, seconds
cache_duration == 300

tables_sql == 
    <<"\n"," "," "," "," "," "," "," "," "," "," "," "," "," "," "," "," "," "," "," "," ","S","E","L","E","C","T"," ","t","a","b","l","e","_","s","c","h","e","m","a",","," ","t","a","b","l","e","_","n","a","m","e","\n"," "," "," "," "," "," "," "," "," "," "," "," "," "," "," "," "," "," "," "," ","F","R","O","M"," ","i","n","f","o","r","m","a","t","i","o","n","_","s","c","h","e","m","a",".","t","a","b","l","e","s","\n"," "," "," "," "," "," "," "," "," "," "," "," "," "," "," "," "," "," "," "," ","W","H","E","R","E"," ","t","a","b","l","e","_","t","y","p","e"," ","="," ","'","B","A","S","E"," ","T","A","B","L","E","'","\n"," "," "," "," "," "," "," "," "," "," "," "," "," "," "," "," "," "," "," "," "," "," "," "," ","A","N","D"," ","t","a","b","l","e","_","s","c","h","e","m","a"," ","="," ","%","s","\n"," "," "," "," "," "," "," "," "," "," "," "," "," "," "," "," "," "," "," "," ","O","R","D","E","R"," ","B","Y"," ","t","a","b","l","e","_","n","a","m","e","\n"," "," "," "," "," "," "," "," "," "," "," "," "," "," "," "," "," "," "," "," ","L","I","M","I","T"," ","1","0","0","\n"," "," "," "," "," "," "," "," "," "," "," "," "," "," "," "," ">>
columns_sql == 
    <<"\n"," "," "," "," "," "," "," "," "," "," "," "," "," "," "," "," "," "," "," "," ","S","E","L","E","C","T","\n"," "," "," "," "," "," "," "," "," "," "," "," "," "," "," "," "," "," "," "," "," "," "," "," ","c","o","l","u","m","n","_","n","a","m","e",",","\n"," "," "," "," "," "," "," "," "," "," "," "," "," "," "," "," "," "," "," "," "," "," "," "," ","d","a","t","a","_","t","y","p","e",",","\n"," "," "," "," "," "," "," "," "," "," "," "," "," "," "," "," "," "," "," "," "," "," "," "," ","i","s","_","n","u","l","l","a","b","l","e","\n"," "," "," "," "," "," "," "," "," "," "," "," "," "," "," "," "," "," "," "," ","F","R","O","M"," ","i","n","f","o","r","m","a","t","i","o","n","_","s","c","h","e","m","a",".","c","o","l","u","m","n","s","\n"," "," "," "," "," "," "," "," "," "," "," "," "," "," "," "," "," "," "," "," ","W","H","E","R","E"," ","t","a","b","l","e","_","s","c","h","e","m","a"," ","="," ","%","s","\n"," "," "," "," "," "," "," "," "," "," "," "," "," "," "," "," "," "," "," "," "," "," "," "," ","A","N","D"," ","t","a","b","l","e","_","n","a","m","e"," ","="," ","%","s","\n"," "," "," "," "," "," "," "," "," "," "," "," "," "," "," "," "," "," "," "," ","O","R","D","E","R"," ","B","Y"," ","o","r","d","i","n","a","l","_","p","o","s","i","t","i","o","n","\n"," "," "," "," "," "," "," "," "," "," "," "," "," "," "," "," ">>
PFX_TABLE_SCHEMA == <<"S","E","L","E","C","T"," ","T","A","B","L","E","_","S","C","H","E","M","A">>
PFX_COLUMN_NAME == <<"S","E","L","E","C","T"," ","C","O","L","U","M","N","_","N","A","M","E">>
MSG_UNSAFE == <<"U","n","s","a","f","e"," ","S","Q","L"," ","q","u","e","r","y",":"," ">>
MSG_POOL_NOT_INITIALIZED == <<"C","o","n","n","e","c","t","i","o","n"," ","p","o","o","l"," ","n","o","t"," ","i","n","i","t","i","a","l","i","z","e","d">>
MSG_SCHEMA_RESPONSE == <<"U","n","a","b","l","e"," ","t","o"," ","r","e","t","r","i","e","v","e"," ","d","a","t","a","b","a","s","e"," ","s","c","h","e","m","a","."," ","P","l","e","a","s","e"," ","c","h","e","c","k"," ","y","o","u","r"," ","R","e","d","S","h","i","f","t"," ","c","o","n","n","e","c","t","i","o","n",".">>
MSG_SCHEMA_ERROR == <<"S","c","h","e","m","a"," ","r","e","t","r","i","e","v","a","l"," ","f","a","i","l","e","d">>
MSG_NOT_SAFE == <<"I"," ","c","o","u","l","d","n","'","t"," ","g","e","n","e","r","a","t","e"," ","a"," ","s","a","f","e"," ","q","u","e","r","y"," ","f","o","r"," ","t","h","a","t"," ","r","e","q","u","e","s","t","."," ">>
MSG_OPERATIONAL == <<"D","a","t","a","b","a","s","e"," ","c","o","n","n","e","c","t","i","o","n"," ","e","r","r","o","r","."," ","P","l","e","a","s","e"," ","c","h","e","c","k"," ","y","o","u","r"," ","c","o","n","n","e","c","t","i","o","n"," ","s","e","t","t","i","n","g","s",".">>
MSG_PROGRAMMING == <<"I","n","v","a","l","i","d"," ","S","Q","L"," ","q","u","e","r","y"," ","g","e","n","e","r","a","t","e","d","."," ","P","l","e","a","s","e"," ","t","r","y"," ","r","e","p","h","r","a","s","i","n","g"," ","y","o","u","r"," ","q","u","e","s","t","i","o","n",".">>
MSG_TIMEOUT == <<"Q","u","e","r","y"," ","t","o","o","k"," ","t","o","o"," ","l","o","n","g"," ","t","o"," ","e","x","e","c","u","t","e","."," ","P","l","e","a","s","e"," ","t","r","y"," ","a"," ","m","o","r","e"," ","s","p","e","c","i","f","i","c"," ","q","u","e","s","t","i","o","n",".">>
MSG_GENERIC == <<"A","n"," ","e","r","r","o","r"," ","o","c","c","u","r","r","e","d"," ","w","h","i","l","e"," ","p","r","o","c","e","s","s","i","n","g"," ","y","o","u","r"," ","r","e","q","u","e","s","t","."," ","P","l","e","a","s","e"," ","t","r","y"," ","a","g","a","i","n",".">>
MSG_NO_RESULTS == <<"N","o"," ","r","e","s","u","l","t","s"," ","f","o","u","n","d"," ","f","o","r"," ","y","o","u","r"," ","q","u","e","r","y",".">>
MSG_FOUND == <<"F","o","u","n","d"," ">>
MSG_FOUND_TAIL == <<" ","r","e","s","u","l","t","(","s",")","."," ","P","l","e","a","s","e"," ","s","e","e"," ","t","h","e"," ","d","a","t","a"," ","t","a","b","l","e"," ","b","e","l","o","w",".">>
TEXT_FENCED == <<"BACKTICK","BACKTICK","BACKTICK","s","q","l","\n","S","E","L","E","C","T"," ","1",";"," ","-","-"," ","n","\n","BACKTICK","BACKTICK","BACKTICK">>
TEXT_DROP == <<"D","R","O","P"," ","T","A","B","L","E"," ","t">>
TEXT_SCHEMA_PREFIX == <<"s","e","l","e","c","t"," ","t","a","b","l","e","_","s","c","h","e","m","a"," ","f","r","o","m"," ","t",";"," ","d","r","o","p"," ","t","a","b","l","e"," ","t">>
TEXT_ANSWER == <<"o","k">>

\* the model responses to the SQL-generation prompt the runs draw from: a
\* fenced SELECT with a comment, a destructive statement, and a statement that
\* begins like a schema-introspection query
ModelTexts == {TEXT_FENCED, TEXT_DROP, TEXT_SCHEMA_PREFIX}

\* the detail text str(e) of an exception raised by a collaborator
Detail(type) == <<"e",":">> \o <<type>>

\* the detail texts the runs draw from for an exception of a class: the
\* warehouse words a rejected statement in more than one way
Details(type) ==
    IF type = "ProgrammingError"
    THEN {Detail(type), <<"e",":">> \o <<"relation t does not exist">>}
    ELSE {Detail(type)}

Exc(type, msg) == [type |-> type, msg |-> msg]

\* str(n) for a natural number
RECURSIVE IntToStr(_)
IntToStr(n) ==
    LET d == <<"0","1","2","3","4","5","6","7","8","9">>[(n % 10) + 1]
    IN  IF n < 10 THEN <<d>> ELSE IntToStr(n \div 10) \o <<d>>

(***************************************************************************)
(* The warehouse: the base tables of the target schema, in name order, and *)
(* the columns of each, in ordinal position.                               *)
(***************************************************************************)
DbStates == {<<>>, <<"a", "b">>}

\* rows of the table-list query
TableRows(d) == [i \in 1..Len(d) |-> [table_schema |-> "public", table_name |-> d[i]]]

\* rows of the column query of one table
ColumnRows(t) ==
    IF t = "a"
    THEN <<[column_name |-> "id", data_type |-> "integer", is_nullable |-> "NO"]>>
    ELSE <<[column_name |-> "id", data_type |-> "integer", is_nullable |-> "NO"],
           [column_name |-> "note", data_type |-> "text", is_nullable |-> "YES"]>>

\* rows of a user query: n rows, numbered in the order the warehouse returns them
UserRows(n) == [i \in 1..n |-> i]

\* the row counts a user query returns in the runs: none, one, exactly the
\* maximum, and one more than the maximum
ResultSizes == {0, 1, MAX_RESULT_ROWS, MAX_RESULT_ROWS + 1}

(***************************************************************************)
(* modules/redshift_client.py: pieces of execute_query and get_schema      *)
(***************************************************************************)
\* line 112-113: the statement is taken for a schema-introspection query
SkipsValidation(sql) ==
    LET head == Upper(Strip(sql))
    IN  StartsWith(head, PFX_TABLE_SCHEMA) \/ StartsWith(head, PFX_COLUMN_NAME)

\* the statement_timeout a connection handed out by the pool has in force:
\* none on a connection that never ran a statement, else what the execution
\* that used it before had set (session_timeout of a request is the setting
\* of the connection it holds)
LeftOverTimeouts ==
    {None, Some(MAX_QUERY_TIMEOUT * 1000), Some(SCHEMA_QUERY_TIMEOUT * 1000)}

\* mutant of the timeout: the override is ignored
TimeoutMs_default_only(timeout_seconds) == MAX_QUERY_TIMEOUT * 1000

\* line 126: timeout_ms = (timeout_seconds or Config.MAX_QUERY_TIMEOUT) * 1000;
\* timeout_seconds is None (here <<>>) or <<seconds>>, and 0 counts as absent
TimeoutMs(timeout_seconds) ==
    IF timeout_seconds = None \/ timeout_seconds[1] = 0
    THEN MAX_QUERY_TIMEOUT * 1000
    ELSE timeout_seconds[1] * 1000

\* lines 142-147: results_list[:Config.MAX_RESULT_ROWS] when longer
LimitResults(rows) ==
    IF Len(rows) > MAX_RESULT_ROWS THEN SubSeq(rows, 1, MAX_RESULT_ROWS) ELSE rows

\* lines 236-246: the entry get_schema appends for one table
TableInfo(table, columns) ==
    [name |-> <<table.table_schema, ".", table.table_name>>,
     columns |-> [i \in 1..Len(columns) |->
                    [name |-> columns[i].column_name,
                     type |-> columns[i].data_type,
                     nullable |-> (columns[i].is_nullable = "YES")]]]

\* lines 253-255: what get_schema returns when anything raised
EmptySchema == [tables |-> <<>>]

(***************************************************************************)
(* modules/utils.py: format_error_message; bedrock_client.py: fallback     *)
(***************************************************************************)
\* format_error_message(error, user_friendly=True), by type(error).__name__
format_error_message(type) ==
    CASE type = "OperationalError" -> MSG_OPERATIONAL
      [] type = "ProgrammingError" -> MSG_PROGRAMMING
      [] type = "TimeoutError" -> MSG_TIMEOUT
      [] OTHER -> MSG_GENERIC

\* bedrock_client.py line 190: the prompt shows the first 10 rows
PROMPT_SAMPLE_ROWS == 10

\* _build_response_formatting_prompt (lines 189-203): what the prompt embeds
\* of its arguments: the statement, query_results[:10] and len(query_results)
build_response_formatting_prompt(sql_query, query_results) ==
    [sql_query |-> sql_query,
     results_sample |-> IF Len(query_results) > PROMPT_SAMPLE_ROWS
                        THEN SubSeq(query_results, 1, PROMPT_SAMPLE_ROWS)
                        ELSE query_results,
     total_rows |-> Len(query_results)]

\* mutant of the fallback text: it never states the number of rows
create_fallback_response_no_count(query_results) == MSG_NO_RESULTS

\* _create_fallback_response(query_results)
create_fallback_response(query_results) ==
    IF query_results = <<>> THEN MSG_NO_RESULTS
    ELSE MSG_FOUND \o IntToStr(Len(query_results)) \o MSG_FOUND_TAIL

(***************************************************************************)
(* modules/query_generator.py: the envelopes of generate_and_execute       *)
(***************************************************************************)
\* the exception classes that are ValueError or a subclass of it
\* (json.JSONDecodeError derives from ValueError)
IsValueError(type) == type \in {"ValueError", "JSONDecodeError"}

\* mutant of the schema-failure envelope: the error field is left empty
SchemaFailedEnvelope_no_error(elapsed) ==
    [response |-> MSG_SCHEMA_RESPONSE, sql_query |-> None, results |-> <<>>,
     execution_time |-> elapsed, error |-> None]

\* lines 66-75
SchemaFailedEnvelope(elapsed) ==
    [response |-> MSG_SCHEMA_RESPONSE, sql_query |-> None, results |-> <<>>,
     execution_time |-> elapsed, error |-> Some(MSG_SCHEMA_ERROR)]

\* mutant of the success envelope: it carries the rows shown in the prompt
SuccessEnvelope_sample(response, sql, rows, elapsed) ==
    [response |-> response, sql_query |-> Some(sql),
     results |-> build_response_formatting_prompt(sql, rows).results_sample,
     execution_time |-> elapsed, error |-> None]

\* lines 105-111
SuccessEnvelope(response, sql, rows, elapsed) ==
    [response |-> response, sql_query |-> Some(sql), results |-> rows,
     execution_time |-> elapsed, error |-> None]

\* mutant of the ValueError envelope: the response leaves the reason out
ValueErrorEnvelope_no_reason(exc, elapsed) ==
    [response |-> MSG_NOT_SAFE, sql_query |-> None, results |-> <<>>,
     execution_time |-> elapsed, error |-> Some(exc.msg)]

\* lines 113-127: except ValueError
ValueErrorEnvelope(exc, elapsed) ==
    [response |-> MSG_NOT_SAFE \o exc.msg, sql_query |-> None, results |-> <<>>,
     execution_time |-> elapsed, error |-> Some(exc.msg)]

\* lines 129-140: except Exception
GeneralErrorEnvelope(exc, elapsed) ==
    [response |-> format_error_message(exc.type), sql_query |-> None, results |-> <<>>,
     execution_time |-> elapsed, error |-> Some(exc.msg)]

\* mutant of the except clauses: the second clause takes database errors only
ExceptClause_narrow(type) ==
    IF IsValueError(type) THEN "ValueError"
    ELSE IF type \in {"OperationalError", "ProgrammingError", "InterfaceError"} THEN "Exception"
    ELSE "escapes"

\* which except clause of generate_and_execute takes an exception:
\* "ValueError", "Exception", or "escapes" when none does
ExceptClause(type) == IF IsValueError(type) THEN "ValueError" ELSE "Exception"

\* mutant of the freshness test: an entry exactly cache_duration old is served
CacheFresh_inclusive(cache, cache_time, current_time) ==
    /\ cache # None
    /\ cache_time # None
    /\ (current_time - cache_time[1]) <= cache_duration

\* lines 153-157: the cached schema is served
CacheFresh(cache, cache_time, current_time) ==
    /\ cache # None
    /\ cache_time # None
    /\ (current_time - cache_time[1]) < cache_duration

\* mutant of the test of line 65: a schema without tables counts as usable
SchemaUnusable_never(schema_info) == FALSE

\* line 65: not schema_info or not schema_info.get('tables')
SchemaUnusable(schema_info) == schema_info.tables = <<>>

(***************************************************************************)
(* One request: generate_and_execute, with _get_schema_info, get_schema    *)
(* and execute_query inlined at their call sites.  rq[r] holds the locals  *)
(* of request r and its position pc; holds counts the pooled connections  *)
(* the request has taken and not given back.                               *)
(***************************************************************************)
Reqs == 1..NumReq

IdleReq ==
    [pc |-> "idle", start_time |-> 0, current_time |-> 0, served |-> "none",
     site |-> "none", timeout_seconds |-> None, conn |-> FALSE, cursor |-> FALSE,
     holds |-> 0,
     timeout_ms |-> None, session_timeout |-> None, out |-> None, verdict |-> None,
     gs_tables |-> <<>>, gs_idx |-> 0, gs_info |-> <<>>, gs_raised |-> FALSE,
     fetched |-> None,
     schema_info |-> None, sql_query |-> None, results |-> <<>>,
     format_failed |-> FALSE, prompt |-> None, caught |-> None,
     envelope |-> None, raised |-> None, trace |-> <<>>]

\* the statement execute_query was called with, by call site
SqlOf(q) ==
    CASE q.site = "tables" -> tables_sql
      [] q.site = "columns" -> columns_sql
      [] OTHER -> q.sql_query[1]

\* a stage event of the user request is recorded
Log(q, ev) == [q EXCEPT !.trace = Append(@, ev)]
LogUser(q, ev) == IF q.site = "user" THEN Log(q, ev) ELSE q

\* the locals of execute_query die when it exits
LeaveEQ(q) ==
    [q EXCEPT !.conn = FALSE, !.cursor = FALSE, !.timeout_ms = None,
              !.session_timeout = None, !.out = None,
              !.timeout_seconds = None]

\* generate_and_execute returns an envelope
Finish(q, env, ev) ==
    [Log(q, ev) EXCEPT !.pc = "done", !.envelope = Some(env), !.site = "none",
                       !.start_time = 0, !.current_time = 0]

\* lines 113-140: an exception reaches the except clauses of generate_and_execute
Handle(q, exc, t) ==
    CASE ExceptClause(exc.type) = "ValueError" ->
            Finish([q EXCEPT !.caught = Some(exc.type)],
                   ValueErrorEnvelope(exc, t - q.start_time), "fail")
      [] ExceptClause(exc.type) = "Exception" ->
            Finish([q EXCEPT !.caught = Some(exc.type)],
                   GeneralErrorEnvelope(exc, t - q.start_time), "fail")
      [] OTHER -> [q EXCEPT !.pc = "done", !.raised = Some(exc), !.site = "none",
                            !.start_time = 0, !.current_time = 0]

\* lines 65-75: the schema is back in generate_and_execute
AfterSchema(q, info, t) ==
    IF SchemaUnusable(info)
    THEN Finish([q EXCEPT !.schema_info = Some(info)],
                SchemaFailedEnvelope(t - q.start_time), "fail")
    ELSE [Log(q, "schema") EXCEPT !.schema_info = Some(info), !.pc = "generate"]

\* get_schema returns: the value goes to line 166 of _get_schema_info
ReturnSchema(q, info) ==
    [q EXCEPT !.fetched = Some(info), !.pc = "gsi_store", !.site = "none",
              !.gs_tables = <<>>, !.gs_idx = 0, !.gs_info = <<>>]

\* execute_query exits normally with rows: control is back at the call site
ReturnRows(q, rows) ==
    CASE q.site = "tables" ->
            IF rows = <<>> THEN ReturnSchema(q, [tables |-> <<>>])
            ELSE [q EXCEPT !.gs_tables = rows, !.gs_idx = 1, !.gs_info = <<>>,
                           !.site = "columns",
                           !.timeout_seconds = Some(SCHEMA_QUERY_TIMEOUT),
                           !.pc = "eq_validate"]
      [] q.site = "columns" ->
            LET info == Append(q.gs_info, TableInfo(q.gs_tables[q.gs_idx], rows))
            IN  IF q.gs_idx = Len(q.gs_tables) THEN ReturnSchema(q, [tables |-> info])
                ELSE [q EXCEPT !.gs_info = info, !.gs_idx = @ + 1,
                               !.timeout_seconds = Some(SCHEMA_QUERY_TIMEOUT),
                               !.pc = "eq_validate"]
      [] OTHER -> [q EXCEPT !.results = rows, !.pc = "format"]

\* mutant of the except clause of get_schema: it returns the schema_info
\* built so far
ReturnRaise_partial(q, exc, t) ==
    IF q.site \in {"tables", "columns"}
    THEN ReturnSchema([q EXCEPT !.gs_raised = TRUE], [tables |-> q.gs_info])
    ELSE Handle(q, exc, t)

\* execute_query exits by raising exc: get_schema swallows it (lines 253-255)
\* and returns the empty schema (gs_raised remembers that it took the except
\* clause); generate_and_execute handles it
ReturnRaise(q, exc, t) ==
    IF q.site \in {"tables", "columns"}
    THEN ReturnSchema([q EXCEPT !.gs_raised = TRUE], EmptySchema)
    ELSE Handle(q, exc, t)

\* lines 59-63 and 150-168: the request starts and _get_schema_info looks at the cache
Start(r) ==
    LET q == [rq[r] EXCEPT !.start_time = now, !.current_time = now]
    IN  /\ rq[r].pc = "idle"
        /\ rq' = [rq EXCEPT ![r] =
              IF ~init_ok
              THEN Handle(q, Exc("AttributeError", Detail("AttributeError")), now)
              ELSE IF CacheFresh(schema_cache, schema_cache_time, now)
              THEN AfterSchema([q EXCEPT !.current_time = 0, !.served = "cache"],
                               schema_cache[1], now)
              ELSE [q EXCEPT !.served = "fetch", !.site = "tables",
                             !.timeout_seconds = Some(SCHEMA_QUERY_TIMEOUT),
                             !.pc = "eq_validate"]]
        /\ UNCHANGED <<vvars, init_ok, pool_ok, now, db, schema_cache, schema_cache_time, checked_out>>

\* line 166: self.schema_cache = <what get_schema returned>
GSI_Store(r) ==
    /\ rq[r].pc = "gsi_store"
    /\ schema_cache' = rq[r].fetched
    /\ rq' = [rq EXCEPT ![r].pc = "gsi_time"]
    /\ UNCHANGED <<vvars, init_ok, pool_ok, now, db, schema_cache_time, checked_out>>

\* lines 169-171 and 65: self.schema_cache_time = current_time; return self.schema_cache
GSI_Time(r) ==
    /\ rq[r].pc = "gsi_time"
    /\ schema_cache_time' = Some(rq[r].current_time)
    /\ rq' = [rq EXCEPT ![r] =
          AfterSchema([rq[r] EXCEPT !.fetched = None, !.current_time = 0,
                                    !.gs_raised = FALSE],
                      schema_cache[1], now)]
    /\ UNCHANGED <<vvars, init_ok, pool_ok, now, db, schema_cache, checked_out>>

\* lines 78-85: generate_sql (the model call and the extraction), then sanitize_sql
Generate(r) ==
    /\ rq[r].pc = "generate"
    /\ \/ \E text \in ModelTexts :
            rq' = [rq EXCEPT ![r] =
                [Log(rq[r], "generate") EXCEPT
                    !.sql_query = Some(sanitize_sql(extract_sql_from_response(text))),
                    !.site = "user", !.timeout_seconds = None, !.pc = "eq_validate"]]
       \/ \E type \in {"ClientError", "JSONDecodeError"} :
            rq' = [rq EXCEPT ![r] =
                Handle(Log(rq[r], "generate"), Exc(type, Detail(type)), now)]
    /\ UNCHANGED <<vvars, init_ok, pool_ok, now, db, schema_cache, schema_cache_time, checked_out>>

\* lines 110-116 of execute_query: the safety check
EQ_Validate(r) ==
    LET q == rq[r]
        sql == SqlOf(q)
        v == validate_sql_safety(sql)
    IN  /\ q.pc = "eq_validate"
        /\ rq' = [rq EXCEPT ![r] =
              IF SkipsValidation(sql) THEN [q EXCEPT !.pc = "eq_acquire"]
              ELSE IF v[1]
              THEN [LogUser(q, "accept") EXCEPT !.pc = "eq_acquire",
                        !.verdict = IF q.site = "user" THEN Some(v) ELSE @]
              ELSE ReturnRaise(
                       [LeaveEQ(LogUser(q, "reject")) EXCEPT
                           !.verdict = IF q.site = "user" THEN Some(v) ELSE @],
                       Exc("ValueError", MSG_UNSAFE \o v[2]), now)]
        /\ UNCHANGED <<vvars, init_ok, pool_ok, now, db, schema_cache, schema_cache_time, checked_out>>

\* line 122 and get_connection (lines 71-77); when it raises, the finally
\* clause finds conn and cursor unset
EQ_Acquire(r) ==
    LET q == rq[r]
    IN  /\ q.pc = "eq_acquire"
        /\ IF ~pool_ok
           THEN /\ rq' = [rq EXCEPT ![r] =
                      ReturnRaise(LeaveEQ(q), Exc("Exception", MSG_POOL_NOT_INITIALIZED), now)]
                /\ UNCHANGED checked_out
           ELSE IF checked_out >= maxconn
           THEN /\ rq' = [rq EXCEPT ![r] =
                      ReturnRaise(LeaveEQ(q), Exc("PoolError", Detail("PoolError")), now)]
                /\ UNCHANGED checked_out
           ELSE \/ /\ \E left \in LeftOverTimeouts :
                         rq' = [rq EXCEPT ![r] =
                             [LogUser(q, "acquire") EXCEPT !.conn = TRUE,
                                 !.holds = @ + 1,
                                 !.session_timeout = left, !.pc = "eq_cursor"]]
                   /\ checked_out' = checked_out + 1
                \/ /\ rq' = [rq EXCEPT ![r] =
                         ReturnRaise(LeaveEQ(q),
                                     Exc("OperationalError", Detail("OperationalError")), now)]
                   /\ UNCHANGED checked_out
        /\ UNCHANGED <<vvars, init_ok, pool_ok, now, db, schema_cache, schema_cache_time>>

\* line 123: conn.cursor(...)
EQ_Cursor(r) ==
    /\ rq[r].pc = "eq_cursor"
    /\ \/ rq' = [rq EXCEPT ![r].cursor = TRUE, ![r].pc = "eq_timeout"]
       \/ rq' = [rq EXCEPT ![r].out = Some([ok |-> FALSE, rows |-> <<>>,
                                  exc |-> Exc("InterfaceError", Detail("InterfaceError")),
                                  results |-> <<>>]),
                           ![r].pc = "eq_finally"]
    /\ UNCHANGED <<vvars, init_ok, pool_ok, now, db, schema_cache, schema_cache_time, checked_out>>

\* lines 126-127: timeout_ms is computed and SET statement_timeout puts it in
\* force in the session of the connection
EQ_SetTimeout(r) ==
    /\ rq[r].pc = "eq_timeout"
    /\ rq' = [rq EXCEPT ![r].timeout_ms = Some(TimeoutMs(rq[r].timeout_seconds)),
                        ![r].session_timeout = Some(TimeoutMs(rq[r].timeout_seconds)),
                        ![r].pc = "eq_execute"]
    /\ UNCHANGED <<vvars, init_ok, pool_ok, now, db, schema_cache, schema_cache_time, checked_out>>

\* the rows the warehouse returns for the statement of the call site
WarehouseRows(q) ==
    CASE q.site = "tables" -> {TableRows(db)}
      [] q.site = "columns" -> {ColumnRows(q.gs_tables[q.gs_idx].table_name)}
      [] OTHER -> {UserRows(n) : n \in ResultSizes}

\* the errors the warehouse raises for the statement: a statement timeout or
\* a rejected statement (get_schema treats every error alike)
WarehouseErrors(q) ==
    IF q.site = "user" THEN {"QueryCanceled", "ProgrammingError"} ELSE {"QueryCanceled"}

\* lines 130-152: the statement runs, the rows are fetched (results) and
\* limited (rows, the list execute_query returns)
EQ_Execute(r) ==
    LET q == LogUser(rq[r], "execute")
    IN  /\ rq[r].pc = "eq_execute"
        /\ \/ \E rows \in WarehouseRows(rq[r]) :
                rq' = [rq EXCEPT ![r] =
                    [q EXCEPT !.out = Some([ok |-> TRUE, rows |-> LimitResults(rows),
                                            exc |-> None, results |-> rows]),
                              !.pc = "eq_finally"]]
           \/ \E type \in WarehouseErrors(rq[r]) : \E msg \in Details(type) :
                rq' = [rq EXCEPT ![r] =
                    [q EXCEPT !.out = Some([ok |-> FALSE, rows |-> <<>>,
                                            exc |-> Exc(type, msg), results |-> <<>>]),
                              !.pc = "eq_finally"]]
        /\ UNCHANGED <<vvars, init_ok, pool_ok, now, db, schema_cache, schema_cache_time, checked_out>>

\* return_connection (lines 79-87): putconn gives the connection back, and
\* the number of connections out of the pool (and held by the request) drops
return_connection(n) == n - 1

\* execute_query exits with the outcome o
Exit(q, o, t) ==
    IF o.ok THEN ReturnRows(LeaveEQ(q), o.rows) ELSE ReturnRaise(LeaveEQ(q), o.exc, t)

\* lines 160-164, the finally clause: cursor.close() when there is a cursor,
\* then return_connection(conn).  When cursor.close() raises, the clause is
\* left at once and the exception replaces the pending outcome.
EQ_Finally(r) ==
    LET q == rq[r]
    IN  /\ q.pc = "eq_finally"
        /\ \/ /\ checked_out' = return_connection(checked_out)
              /\ rq' = [rq EXCEPT ![r] =
                    Exit([q EXCEPT !.holds = return_connection(@)], q.out[1], now)]
           \/ /\ q.cursor
              /\ UNCHANGED checked_out
              /\ rq' = [rq EXCEPT ![r] =
                    ReturnRaise(LeaveEQ(q),
                                Exc("InterfaceError", Detail("InterfaceError")), now)]
        /\ UNCHANGED <<vvars, init_ok, pool_ok, now, db, schema_cache, schema_cache_time>>

\* lines 92-111: format_response and the success envelope.  format_response
\* builds its prompt (bedrock_client.py lines 80-84); the model call of
\* format_response (bedrock_client.py lines 86-92) either answers or raises,
\* and then the fallback text is returned.
Format(r) ==
    LET q == rq[r]
    IN  /\ q.pc = "format"
        /\ \E failed \in BOOLEAN :
              LET response == IF failed THEN create_fallback_response(q.results)
                              ELSE TEXT_ANSWER
              IN  rq' = [rq EXCEPT ![r] =
                      Finish([Log(q, "format") EXCEPT !.format_failed = failed,
                                  !.prompt = Some(build_response_formatting_prompt(
                                                      q.sql_query[1], q.results))],
                             SuccessEnvelope(response, q.sql_query[1], q.results,
                                             now - q.start_time),
                             "complete")]
        /\ UNCHANGED <<vvars, init_ok, pool_ok, now, db, schema_cache, schema_cache_time, checked_out>>

\* time passes
Tick ==
    /\ now + TickStep <= MaxNow
    /\ now' = now + TickStep
    /\ UNCHANGED <<vvars, init_ok, pool_ok, db, schema_cache, schema_cache_time, checked_out, rq>>

\* the tables of the warehouse change
DbChange ==
    /\ \E d \in DbStates \ {db} : db' = d
    /\ UNCHANGED <<vvars, init_ok, pool_ok, now, schema_cache, schema_cache_time, checked_out, rq>>

\* construction: QueryGenerator.__init__ (lines 25-37) and
\* RedShiftClient._initialize_connection_pool (lines 25-42) either succeed or
\* leave the clients, or the pool, unset
PInit ==
    /\ init_ok \in BOOLEAN
    /\ pool_ok \in BOOLEAN
    /\ (~init_ok => ~pool_ok)
    /\ now = 0
    /\ db \in DbStates
    /\ schema_cache = None
    /\ schema_cache_time = None
    /\ checked_out = 0
    /\ rq = [r \in Reqs |-> IdleReq]

PNext ==
    \/ \E r \in Reqs :
         \/ Start(r) \/ GSI_Store(r) \/ GSI_Time(r) \/ Generate(r)
         \/ EQ_Validate(r) \/ EQ_Acquire(r) \/ EQ_Cursor(r) \/ EQ_SetTimeout(r)
         \/ EQ_Execute(r) \/ EQ_Finally(r) \/ Format(r)
    \/ Tick
    \/ DbChange

(***************************************************************************)
(* Validator harness: texts are built from fragments and handed to         *)
(* validate_sql_safety.                                                    *)
(***************************************************************************)
NoResult == <<"none">>

\* the pieces the texts are built from: SELECT and blocked verbs in several
\* letter cases, identifier characters, an identifier that embeds a blocked
\* verb, whitespace and the semicolon
Fragments ==
    { STR_SELECT, <<"s","E","l","e","c","t">>, <<" ">>, <<";">>, <<"x">>, <<"_">>, <<"d","r","o","p">>, <<"U","p","d","a","t","e">>,
      <<"u","p","d","a","t","e","_","t","i","m","e">> }
    \cup Range(dangerous_keywords)

\* the executions of the pool harness
Execs == 1..NumExec

VInit ==
    /\ vin = <<>> /\ vn = 0 /\ vout = NoResult
    /\ pool_exec = [e \in Execs |-> "idle"] /\ pool_result = None

\* one more fragment is appended to the text
VAppend ==
    /\ vout = NoResult
    /\ vn < MaxFrags
    /\ \E f \in Fragments : vin' = vin \o f
    /\ vn' = vn + 1
    /\ vout' = vout
    /\ UNCHANGED <<pvars, pool_exec, pool_result>>

\* the text is validated
VCheck ==
    /\ vout = NoResult
    /\ vout' = validate_sql_safety(vin)
    /\ UNCHANGED <<vin, vn, pvars, pool_exec, pool_result>>

VNext == VAppend \/ VCheck

(***************************************************************************)
(* Extractor harness: model texts are built from fragments and handed to   *)
(* _extract_sql_from_response; vin, vn and vout are used as in the         *)
(* validator harness.                                                      *)
(***************************************************************************)
\* the pieces the model texts are built from: a bare fence, an opening fence
\* line, a newline, a blank and a statement
XFragments ==
    { FENCE, FENCE \o <<"s","q","l","\n">>, <<"\n">>, <<" ">>,
      <<"S","E","L","E","C","T"," ","1">> }

\* one more fragment is appended to the text
XAppend ==
    /\ vout = NoResult
    /\ vn < MaxFrags
    /\ \E f \in XFragments : vin' = vin \o f
    /\ vn' = vn + 1
    /\ vout' = vout
    /\ UNCHANGED <<pvars, pool_exec, pool_result>>

\* the text is handed to the extractor
XCheck ==
    /\ vout = NoResult
    /\ vout' = <<"sql", extract_sql_from_response(vin)>>
    /\ UNCHANGED <<vin, vn, pvars, pool_exec, pool_result>>

XNext == XAppend \/ XCheck

(***************************************************************************)
(* Pool harness: NumExec executions take a connection with get_connection  *)
(* and give it back with return_connection, nothing else.                  *)
(***************************************************************************)
\* get_connection (lines 61-77): without a pool it raises Exception; else it
\* calls SimpleConnectionPool.getconn(), which hands out a connection while
\* fewer than maxconn are out (connecting may fail), and raises PoolError
\* ("connection pool exhausted") at once when maxconn are out; the except
\* clause logs and re-raises, nothing waits or retries
PX_Get(e) ==
    /\ pool_exec[e] = "idle"
    /\ IF ~pool_ok
       THEN /\ pool_result' = Some([exec |-> e, outcome |-> "Exception"])
            /\ UNCHANGED <<pool_exec, checked_out>>
       ELSE IF checked_out >= maxconn
       THEN /\ pool_result' = Some([exec |-> e, outcome |-> "PoolError"])
            /\ UNCHANGED <<pool_exec, checked_out>>
       ELSE \/ /\ pool_exec' = [pool_exec EXCEPT ![e] = "conn"]
               /\ checked_out' = checked_out + 1
               /\ pool_result' = Some([exec |-> e, outcome |-> "conn"])
            \/ /\ pool_result' = Some([exec |-> e, outcome |-> "OperationalError"])
               /\ UNCHANGED <<pool_exec, checked_out>>
    /\ UNCHANGED <<vin, vn, vout, init_ok, pool_ok, now, db, schema_cache,
                   schema_cache_time, rq>>

\* return_connection (lines 79-87)
PX_Return(e) ==
    /\ pool_exec[e] = "conn"
    /\ pool_exec' = [pool_exec EXCEPT ![e] = "idle"]
    /\ checked_out' = return_connection(checked_out)
    /\ pool_result' = Some([exec |-> e, outcome |-> "returned"])
    /\ UNCHANGED <<vin, vn, vout, init_ok, pool_ok, now, db, schema_cache,
                   schema_cache_time, rq>>

PXNext == \E e \in Execs : PX_Get(e) \/ PX_Return(e)

(***************************************************************************)
(* Specifications.                                                         *)
(***************************************************************************)
\* the requests run; the validator harness is at rest
Init == PInit /\ VInit
Next == PNext
Spec == Init /\ [][Next]_vars

\* the validator harness runs; no request has started
InitValidator ==
    /\ init_ok = TRUE /\ pool_ok = TRUE /\ now = 0 /\ db = <<>>
    /\ schema_cache = None /\ schema_cache_time = None /\ checked_out = 0
    /\ rq = [r \in Reqs |-> IdleReq]
    /\ vin = <<>> /\ vn = 0 /\ vout = NoResult
    /\ pool_exec = [e \in Execs |-> "idle"] /\ pool_result = None
SpecValidator == InitValidator /\ [][VNext]_vars

\* the extractor harness runs; no request has started
InitExtractor ==
    /\ init_ok = TRUE /\ pool_ok = TRUE /\ now = 0 /\ db = <<>>
    /\ schema_cache = None /\ schema_cache_time = None /\ checked_out = 0
    /\ rq = [r \in Reqs |-> IdleReq]
    /\ vin = <<>> /\ vn = 0 /\ vout = NoResult
    /\ pool_exec = [e \in Execs |-> "idle"] /\ pool_result = None
SpecExtractor == InitExtractor /\ [][XNext]_vars

\* the pool harness runs; no request has started
InitPool ==
    /\ init_ok = TRUE /\ pool_ok \in BOOLEAN /\ now = 0 /\ db = <<>>
    /\ schema_cache = None /\ schema_cache_time = None /\ checked_out = 0
    /\ rq = [r \in Reqs |-> IdleReq]
    /\ vin = <<>> /\ vn = 0 /\ vout = NoResult
    /\ pool_exec = [e \in Execs |-> "idle"] /\ pool_result = None
SpecPool == InitPool /\ [][PXNext]_vars

(***************************************************************************)
(* Vocabulary of the claims.                                               *)
(***************************************************************************)
\* the blocked verb K occurs in the text as a standalone word, in any letter
\* case: its neighbours, if any, are not letters, digits or underscores
Standalone(K, text) ==
    \E i \in 1..Len(text) :
        /\ i + Len(K) - 1 <= Len(text)
        /\ \A j \in 1..Len(K) : UpperChar(text[i + j - 1]) = K[j]
        /\ (i = 1 \/ text[i - 1] \notin WordChars)
        /\ (i + Len(K) > Len(text) \/ text[i + Len(K)] \notin WordChars)

BlockedVerbs == Range(dangerous_keywords)

\* the blocked verbs that occur in the text as standalone words
BlockedIn(text) == {K \in BlockedVerbs : Standalone(K, text)}

\* the text holds some blocked verb as a standalone word
HasBlocked(text) == \E K \in BlockedVerbs : Standalone(K, text)

\* the text, trimmed, starts with SELECT in any letter case
StartsSelect(text) ==
    LET t == Strip(text)
    IN  Len(t) >= 6 /\ \A j \in 1..6 : UpperChar(t[j]) = STR_SELECT[j]

\* more than one semicolon, or one that is not the last character once
\* trailing whitespace is trimmed
BadSemicolons(text) ==
    LET semis == {i \in 1..Len(text) : text[i] = ";"}
        t == RStrip(text)
    IN  \/ Cardinality(semis) > 1
        \/ Cardinality(semis) = 1 /\ (t = <<>> \/ t[Len(t)] # ";")

\* the reasons that name a blocked verb occurring in the text
KeywordReasons(text) == {MSG_DANGEROUS \o K : K \in BlockedIn(text)}

Checked == vout # NoResult

\* the requests whose generated SQL the validator refused
Rejected == {r \in Reqs : rq[r].verdict # None /\ ~rq[r].verdict[1][1]}

\* the stage events of a request, in the order of the pipeline
StageOrder == <<"schema", "generate", "accept", "acquire", "execute", "format", "complete">>

IsPrefix(s, t) == Len(s) <= Len(t) /\ SubSeq(t, 1, Len(s)) = s

\* the five fields of the envelope
EnvelopeFields == {"response", "sql_query", "results", "execution_time", "error"}

(***************************************************************************)
(* Claims.                                                                 *)
(***************************************************************************)
\* C1: every SQL string that comes from the model and is sent to the
\* warehouse by execute_query was accepted by validate_sql_safety before.
C1_GeneratedSqlValidatedBeforeSent ==
    \A r \in Reqs :
        "execute" \in Range(rq[r].trace) =>
            rq[r].verdict # None /\ rq[r].verdict[1][1]

\* C2: a text that holds a blocked verb as a standalone word, in any letter
\* case and at any position, is refused with the reason "Dangerous SQL keyword
\* detected: K", K a blocked verb that occurs in the text.
C2_BlockedKeywordRefused ==
    (Checked /\ HasBlocked(vin)) =>
        /\ vout[1] = FALSE
        /\ vout[2] \in KeywordReasons(vin)

\* a SELECT that holds the verb in lower case, after the leading word
C2_Witness ==
    /\ Checked
    /\ vin = STR_SELECT \o <<" ">> \o <<"d","r","o","p">>
    /\ vout = <<FALSE, MSG_DANGEROUS \o KW_DROP>>

\* C3: when the validator refuses the generated SQL, the request ends in a
\* failure envelope whose response ends with the reason, with sql_query None
\* and no results, and the request neither acquired a connection for the
\* statement nor sent it to the warehouse.
C3_RejectionEnvelope ==
    \A r \in Rejected :
        /\ rq[r].pc = "done"
        /\ rq[r].envelope # None
        /\ LET e == rq[r].envelope[1]
               reason == rq[r].verdict[1][2]
           IN  /\ reason # <<>>
               /\ EndsWith(e.response, reason)
               /\ e.sql_query = None
               /\ e.results = <<>>
               /\ e.error # None
        /\ "acquire" \notin Range(rq[r].trace)
        /\ "execute" \notin Range(rq[r].trace)
        /\ ~rq[r].conn

C3_Witness ==
    \E r \in Rejected : rq[r].pc = "done" /\ rq[r].sql_query = Some(TEXT_DROP)

C5_SemicolonRule ==
    (Checked /\ StartsSelect(vin) /\ ~HasBlocked(vin)) =>
        IF BadSemicolons(vin) THEN vout = <<FALSE, MSG_MULTIPLE>>
        ELSE vout = <<TRUE, <<>>>>

C5_Witness ==
    /\ Checked
    /\ vin = STR_SELECT \o <<";">> \o <<" ">>
    /\ vout = <<TRUE, <<>>>>

\* C6: the three rules are evaluated in the order blocked verb, SELECT prefix,
\* semicolon; the reason is that of the first rule that fails, and the text is
\* accepted, with an empty reason, if and only if no rule fails.
C6_FirstFailingRuleWins ==
    Checked =>
        LET rule1 == HasBlocked(vin)
            rule2 == ~StartsSelect(vin)
            rule3 == BadSemicolons(vin)
        IN  /\ rule1 => vout[1] = FALSE /\ StartsWith(vout[2], MSG_DANGEROUS)
            /\ ~rule1 /\ rule2 => vout = <<FALSE, MSG_MUST_SELECT>>
            /\ ~rule1 /\ ~rule2 /\ rule3 => vout = <<FALSE, MSG_MULTIPLE>>
            /\ vout[1] = TRUE <=> (~rule1 /\ ~rule2 /\ ~rule3)
            /\ vout[1] = TRUE => vout[2] = <<>>

\* a text that fails all three rules, and gets the reason of the first
C6_Witness ==
    /\ Checked
    /\ HasBlocked(vin)
    /\ ~StartsSelect(vin)
    /\ BadSemicolons(vin)
    /\ StartsWith(vout[2], MSG_DANGEROUS)

\* C7: every connection execute_query acquires is back in the pool when
\* execute_query exits, on every exit path: the connections checked out are
\* those of the executions in progress.
C7_ConnectionsReturned ==
    checked_out = Cardinality({r \in Reqs : rq[r].conn})

\* C8: every call of generate_and_execute returns exactly one envelope with
\* the five fields, on every path, and no failure leaves it as an exception.
C8_AlwaysOneEnvelope ==
    \A r \in Reqs :
        /\ rq[r].raised = None
        /\ (rq[r].pc = "done" <=> rq[r].envelope # None)
        /\ (rq[r].envelope # None => DOMAIN rq[r].envelope[1] = EnvelopeFields)

\* one request has ended in success and another in an execution failure
C8_Witness ==
    \E r1, r2 \in Reqs :
        /\ rq[r1].pc = "done" /\ rq[r1].envelope[1].error = None
        /\ rq[r2].pc = "done" /\ rq[r2].envelope[1].error # None
        /\ "execute" \in Range(rq[r2].trace)

\* C9: the stages of a request occur only in the order schema, generation,
\* validation (accepted), execution, formatting, completion, none skipped; a
\* failure ends the request at the stage where it happens.
C9_StagesInOrder ==
    \A r \in Reqs :
        LET t == rq[r].trace
            failed == t # <<>> /\ t[Len(t)] = "fail"
            body == IF failed THEN SubSeq(t, 1, Len(t) - 1) ELSE t
        IN  \/ IsPrefix(body, StageOrder) /\ (body = StageOrder => ~failed)
            \/ failed /\ body = <<"schema", "generate", "reject">>

\* C10: a schema get starts a warehouse fetch exactly when no entry is cached
\* or now - fetchedAt >= 300; otherwise it serves the cached snapshot, unchanged
\* and without I/O.
C10_FetchExactlyWhenStale ==
    [][\A r \in Reqs :
          (rq[r].pc = "idle" /\ rq'[r].pc # "idle" /\ init_ok) =>
              LET stale == \/ schema_cache = None
                           \/ schema_cache_time = None
                           \/ now - schema_cache_time[1] >= 300
              IN  /\ stale <=> (rq'[r].pc = "eq_validate" /\ rq'[r].site = "tables")
                  /\ stale <=> rq'[r].served = "fetch"
                  /\ ~stale =>
                        /\ rq'[r].served = "cache"
                        /\ rq'[r].pc \in {"generate", "done"}
                        /\ rq'[r].pc = "generate" => rq'[r].schema_info = schema_cache
                        /\ rq'[r].pc = "done" => schema_cache[1].tables = <<>>
                        /\ <<schema_cache, schema_cache_time, checked_out>>' =
                               <<schema_cache, schema_cache_time, checked_out>>]_vars

\* two gets in one TTL window: the first fetched, the second is served from
\* the cache the first filled
C10_Witness ==
    \E r1, r2 \in Reqs :
        /\ rq[r1].served = "fetch" /\ rq[r1].pc = "done"
        /\ rq[r2].served = "cache" /\ rq[r2].pc = "generate"
        /\ rq[r2].schema_info = schema_cache
        /\ schema_cache_time = Some(0)
        /\ now = 0

\* C11: when a refresh fetch fails while a previously fetched snapshot is
\* cached, the failed fetch neither replaces nor erases that snapshot, and the
\* schema get returns it.
C11_StaleSnapshotServedOnFailure ==
    [][\A r \in Reqs :
          /\ (/\ rq[r].pc = "gsi_store" /\ rq'[r].pc = "gsi_time"
              /\ rq[r].gs_raised
              /\ schema_cache # None /\ ~SchemaUnusable(schema_cache[1])
              /\ schema_cache_time # None
              /\ now - schema_cache_time[1] >= cache_duration)
             => schema_cache' = schema_cache
          /\ (/\ rq[r].pc = "gsi_time" /\ rq'[r].pc # "gsi_time"
              /\ rq[r].gs_raised
              /\ schema_cache # None /\ ~SchemaUnusable(schema_cache[1]))
             => rq'[r].schema_info = schema_cache]_vars

\* C12: a fetch that failed creates no cache entry and refreshes none: it
\* leaves the cached snapshot and its fetch time as they were, so that the
\* next get fetches again.
C12_FailedFetchNotCached ==
    [][\A r \in Reqs :
          (/\ rq[r].gs_raised
           /\ rq[r].pc \in {"gsi_store", "gsi_time"}
           /\ rq'[r].pc # rq[r].pc)
             => /\ schema_cache' = schema_cache
                /\ schema_cache_time' = schema_cache_time]_vars

\* C13: when the schema get yields no usable schema (the fetch failed, or the
\* snapshot has no tables), the request ends in a failure envelope with the
\* schema-unavailable response, sql_query = None, results = [] and a non-null
\* error, and neither the model nor a user query was invoked in that request.
C13_SchemaUnavailableEnvelope ==
    \A r \in Reqs :
        (rq[r].schema_info # None /\ rq[r].schema_info[1].tables = <<>>) =>
            /\ rq[r].pc = "done"
            /\ rq[r].envelope # None
            /\ rq[r].envelope[1].response = MSG_SCHEMA_RESPONSE
            /\ rq[r].envelope[1].sql_query = None
            /\ rq[r].envelope[1].results = <<>>
            /\ rq[r].envelope[1].error # None
            /\ rq[r].sql_query = None
            /\ rq[r].verdict = None
            /\ rq[r].trace = <<"fail">>

\* a request whose schema fetch came back empty has ended with the
\* schema-unavailable envelope
C13_Witness ==
    \E r \in Reqs :
        /\ rq[r].pc = "done"
        /\ rq[r].served = "fetch"
        /\ rq[r].schema_info = Some(EmptySchema)
        /\ rq[r].envelope # None
        /\ rq[r].envelope[1].error = Some(MSG_SCHEMA_ERROR)
        /\ rq[r].trace = <<"fail">>

\* the requests that are inside get_schema, fetching from the warehouse
Fetching == {r \in Reqs : rq[r].site \in {"tables", "columns"}}

\* C14: at most one underlying schema fetch is in progress at any time, also
\* when several requests call the schema get while the cache is empty or expired.
C14_SingleFetchInFlight == Cardinality(Fetching) <= 1

\* C15: when the query executed and the formatting model call failed, the
\* request completes successfully: error = None, the executed sql_query, the
\* rows execute_query returned, and a fallback response that states the row
\* count ("No results found" when there are none).
C15_FormattingFailureRecovered ==
    \A r \in Reqs :
        rq[r].format_failed =>
            /\ rq[r].pc = "done"
            /\ rq[r].raised = None
            /\ rq[r].envelope # None
            /\ rq[r].envelope[1].error = None
            /\ rq[r].envelope[1].sql_query = rq[r].sql_query
            /\ rq[r].sql_query # None
            /\ rq[r].envelope[1].results = rq[r].results
            /\ LET n == Len(rq[r].results)
                   response == rq[r].envelope[1].response
               IN  IF n = 0 THEN response = MSG_NO_RESULTS
                   ELSE StartsWith(response, MSG_FOUND \o IntToStr(n) \o <<" ">>)
            /\ rq[r].trace[Len(rq[r].trace)] = "complete"

\* a request with rows whose formatting call failed has completed with the
\* fallback text
C15_Witness ==
    \E r \in Reqs :
        /\ rq[r].format_failed
        /\ rq[r].pc = "done"
        /\ rq[r].results # <<>>
        /\ rq[r].envelope[1].error = None
        /\ rq[r].envelope[1].response = create_fallback_response(rq[r].results)

\* the exception classes of a database error or an unavailable connection
DatabaseErrors ==
    {"OperationalError", "ProgrammingError", "InterfaceError", "QueryCanceled", "PoolError"}

\* the fields of an envelope apart from execution_time
Visible(env) == [env EXCEPT !.execution_time = 0]

\* C16: for a request that fails with a database error or an unavailable
\* connection no field of the envelope holds the raw exception text: two
\* failed requests whose exceptions are of the same class (and may differ in
\* their detail text) return the same envelope apart from execution_time.
C16_NoRawExceptionText ==
    \A r1, r2 \in Reqs :
        (/\ rq[r1].pc = "done" /\ rq[r2].pc = "done"
         /\ rq[r1].caught # None
         /\ rq[r1].caught = rq[r2].caught
         /\ rq[r1].caught[1] \in DatabaseErrors)
        => Visible(rq[r1].envelope[1]) = Visible(rq[r2].envelope[1])

\* C17: a request made when the connection pool could not be initialized
\* returns an envelope whose error identifies the connection as unavailable,
\* distinguishable from a schema-retrieval failure and from an SQL rejection,
\* together with a generic user-facing message.
C17_PoolFailureIdentified ==
    \A r \in Reqs :
        (init_ok /\ ~pool_ok /\ rq[r].pc = "done") =>
            /\ rq[r].envelope # None
            /\ rq[r].envelope[1].error # None
            /\ rq[r].envelope[1].error # Some(MSG_SCHEMA_ERROR)
            /\ ~StartsWith(rq[r].envelope[1].error[1], MSG_UNSAFE)
            /\ rq[r].envelope[1].response \in {MSG_OPERATIONAL, MSG_GENERIC}

\* the executions that have fetched their rows and are about to return them
Returning == {r \in Reqs : rq[r].out # None /\ rq[r].out[1].ok}

\* C18: for a result set of n rows and a maximum of m, execute_query returns
\* the first min(n, m) rows in their order, unmodified, and what it returns
\* tells whether n > m (truncated): two executions that return the same value
\* agree on whether their result set was cut.
C18_TruncationReported ==
    /\ \A r \in Returning :
          LET o == rq[r].out[1]
              n == Len(o.results)
              k == IF n > MAX_RESULT_ROWS THEN MAX_RESULT_ROWS ELSE n
          IN  o.rows = SubSeq(o.results, 1, k)
    /\ \A r1, r2 \in Returning :
          (/\ rq[r1].site = "user" /\ rq[r2].site = "user"
           /\ rq[r1].out[1].rows = rq[r2].out[1].rows) =>
              (Len(rq[r1].out[1].results) > MAX_RESULT_ROWS) =
              (Len(rq[r2].out[1].results) > MAX_RESULT_ROWS)

\* C19: whenever a statement is about to run, the statement timeout in force
\* on the connection is the one this execution has set: 1000 x the override
\* when one was passed, 1000 x the configured default otherwise, never a
\* timeout left over from an earlier execution.
C19_TimeoutSetBeforeStatement ==
    \A r \in Reqs :
        rq[r].pc = "eq_execute" =>
            /\ rq[r].conn /\ rq[r].cursor
            /\ rq[r].session_timeout =
                  Some(IF rq[r].timeout_seconds = None
                       THEN 1000 * MAX_QUERY_TIMEOUT
                       ELSE 1000 * rq[r].timeout_seconds[1])

\* a user statement (no override) and a schema statement (override of 120 s)
\* are both about to run, each under its own timeout
C19_Witness ==
    \E r1, r2 \in Reqs :
        /\ rq[r1].pc = "eq_execute" /\ rq[r1].site = "user"
        /\ rq[r1].timeout_seconds = None
        /\ rq[r1].session_timeout = Some(30000)
        /\ rq[r2].pc = "eq_execute" /\ rq[r2].site = "tables"
        /\ rq[r2].timeout_seconds = Some(120)
        /\ rq[r2].session_timeout = Some(120000)

\* C20: a request that is waiting on a model-inference call (SQL generation or
\* response formatting) holds no pooled connection: it has given back every
\* connection it took.
C20_NoConnectionDuringInference ==
    \A r \in Reqs :
        rq[r].pc \in {"generate", "format"} => (rq[r].holds = 0 /\ ~rq[r].conn)

\* C21: when all maxconn connections are out, a further acquisition waits
\* for a connection to come back and then proceeds: no get_connection fails
\* because the pool has no free connection.
C21_AcquisitionBlocksWhenExhausted ==
    pool_result # None => pool_result[1].outcome # "PoolError"

\* the text after the first line of t (nothing when t is a single line)
DropFirstLine(t) ==
    IF "\n" \in Range(t) THEN Slice(t, Find(t, "\n", 1) + 1, Len(t)) ELSE <<>>

\* t without a fence at its end
DropTrailingFence(t) == IF EndsWith(t, FENCE) THEN Slice(t, 1, Len(t) - 3) ELSE t

\* the texts the extractor harness has extracted
Extracted == vout # NoResult /\ vout[1] = "sql"

\* C22: for a text that opens with a fence marker the extractor discards the
\* whole first line, removes the trailing fence if present and trims; any
\* other text it returns trimmed and otherwise unchanged.
C22_ExtractorStripsFences ==
    Extracted =>
        LET t == Strip(vin)
        IN  vout[2] = IF StartsWith(t, FENCE)
                      THEN Strip(DropTrailingFence(DropFirstLine(t)))
                      ELSE t

\* C23: the extractor is idempotent: extract(extract(t)) = extract(t) for
\* every model text t.
C23_ExtractorIdempotent ==
    Extracted => extract_sql_from_response(vout[2]) = vout[2]

\* C24: the formatting prompt embeds at most the first 10 result rows and the
\* true total row count, and the results field of the success envelope is
\* the row list the executor returned, not the 10-row sample.
C24_PromptSampleLeavesResults ==
    \A r \in Reqs :
        rq[r].prompt # None =>
            LET p == rq[r].prompt[1]
                rows == rq[r].results
                k == IF Len(rows) > 10 THEN 10 ELSE Len(rows)
            IN  /\ Len(p.results_sample) <= 10
                /\ p.results_sample = SubSeq(rows, 1, k)
                /\ p.total_rows = Len(rows)
                /\ rq[r].pc = "done"
                /\ rq[r].envelope # None
                /\ rq[r].envelope[1].error = None
                /\ rq[r].envelope[1].results = rows

\* a request with more than 10 rows has completed: its prompt showed 10 of
\* them and its envelope carries them all
C24_Witness ==
    \E r \in Reqs :
        /\ rq[r].pc = "done"
        /\ rq[r].prompt # None
        /\ Len(rq[r].results) > 10
        /\ Len(rq[r].prompt[1].results_sample) = 10
        /\ rq[r].prompt[1].total_rows = Len(rq[r].results)
        /\ Len(rq[r].envelope[1].results) = Len(rq[r].results)

\* C25: the cache entry is replaced as a whole: in every state a concurrent
\* request can observe, the cached snapshot and the fetch time are those of
\* the same fetch: a snapshot is never cached without its fetch time, and
\* once a fetch has stored its snapshot the fetch time is that fetch's.
C25_CacheEntryReplacedWhole ==
    /\ (schema_cache = None) <=> (schema_cache_time = None)
    /\ \A r \in Reqs :
          rq[r].pc = "gsi_time" =>
              (schema_cache_time # None /\ schema_cache_time[1] = rq[r].current_time)

\* the blocked verb K occurs in the text, in any letter case, as part of a
\* longer identifier: next to a letter, digit or underscore
Embedded(K, text) ==
    \E i \in 1..Len(text) :
        /\ i + Len(K) - 1 <= Len(text)
        /\ \A j \in 1..Len(K) : UpperChar(text[i + j - 1]) = K[j]
        /\ \/ (i > 1 /\ text[i - 1] \in WordChars)
           \/ (i + Len(K) <= Len(text) /\ text[i + Len(K)] \in WordChars)

\* C26: a SELECT statement whose only occurrences of blocked verbs are
\* embedded in longer identifiers (update_time, created_at, delete_flag), and
\* which satisfies the semicolon rule, is accepted.
C26_EmbeddedVerbAccepted ==
    (/\ Checked
     /\ StartsSelect(vin)
     /\ ~BadSemicolons(vin)
     /\ ~HasBlocked(vin)
     /\ \E K \in BlockedVerbs : Embedded(K, vin))
    => vout = <<TRUE, <<>>>>

\* "SELECT update_time" was checked and accepted
C26_Witness ==
    /\ vin = STR_SELECT \o <<" ">> \o <<"u","p","d","a","t","e","_","t","i","m","e">>
    /\ vout = <<TRUE, <<>>>>

\* the statements generate_and_execute can hand to execute_query: the model
\* texts, extracted and sanitized
SanitizedStatements == {sanitize_sql(extract_sql_from_response(t)) : t \in ModelTexts}

\* C27: in every envelope generate_and_execute returns, error is None exactly
\* when sql_query is not None; a failure envelope has sql_query = None and
\* results = []; a success envelope carries the sanitized SQL that was passed
\* to execute_query.
C27_ErrorIffNoSql ==
    \A r \in Reqs :
        rq[r].envelope # None =>
            LET env == rq[r].envelope[1]
            IN  /\ (env.error = None) <=> (env.sql_query # None)
                /\ env.error # None => (env.sql_query = None /\ env.results = <<>>)
                /\ env.error = None =>
                      /\ env.sql_query = rq[r].sql_query
                      /\ env.sql_query[1] \in SanitizedStatements
                      /\ "execute" \in Range(rq[r].trace)

\* one request has returned a success envelope and another a failure envelope
C27_Witness ==
    \E r1, r2 \in Reqs :
        /\ rq[r1].envelope # None /\ rq[r2].envelope # None
        /\ rq[r1].envelope[1].error = None
        /\ rq[r1].envelope[1].sql_query = rq[r1].sql_query
        /\ rq[r2].envelope[1].error # None
        /\ rq[r2].envelope[1].sql_query = None
        /\ rq[r2].sql_query # None

\* C28: the envelope reserved for a validator rejection (response "I couldn't
\* generate a safe query for that request. ...") is returned only when
\* validate_sql_safety rejected the generated SQL; a failure of any other
\* stage never produces it.
C28_RejectionEnvelopeOnlyFromValidator ==
    \A r \in Reqs :
        (rq[r].envelope # None /\ StartsWith(rq[r].envelope[1].response, MSG_NOT_SAFE)) =>
            (rq[r].verdict # None /\ rq[r].verdict[1][1] = FALSE)

\* the requests that are inside execute_query
InExecuteQuery ==
    {r \in Reqs : rq[r].pc \in {"eq_validate", "eq_acquire", "eq_cursor",
                                "eq_timeout", "eq_execute", "eq_finally"}}

\* C29: a request never holds more than one pooled connection at a time; the
\* number of checked-out connections never exceeds the number of requests
\* inside execute_query, and no request asks for a connection while it
\* holds one.
C29_OneConnectionPerRequest ==
    /\ \A r \in Reqs : rq[r].holds <= 1
    /\ checked_out <= Cardinality(InExecuteQuery)
    /\ \A r \in Reqs : rq[r].pc = "eq_acquire" => rq[r].holds = 0

\* C30: get_schema is all-or-nothing and never raises: it returns a snapshot
\* with every table the table-list query returned, in retrieval order, each
\* with its complete column list in retrieval order, or, when the table-list
\* query or any column query failed, the empty snapshot; never a partial list.
C30_SchemaAllOrNothing ==
    [][\A r \in Reqs :
          /\ (rq[r].site \in {"tables", "columns"}) =>
                (rq'[r].pc # "done" /\ rq'[r].raised = None /\ rq'[r].caught = None)
          /\ (rq[r].pc # "gsi_store" /\ rq'[r].pc = "gsi_store") =>
                LET info == rq'[r].fetched[1].tables
                    tabs == rq[r].gs_tables
                IN  IF rq'[r].gs_raised THEN info = <<>>
                    ELSE /\ Len(info) = Len(tabs)
                         /\ \A i \in 1..Len(tabs) :
                               LET cols == ColumnRows(tabs[i].table_name)
                               IN  /\ info[i].name =
                                          <<tabs[i].table_schema, ".", tabs[i].table_name>>
                                   /\ Len(info[i].columns) = Len(cols)
                                   /\ \A j \in 1..Len(cols) :
                                         /\ info[i].columns[j].name = cols[j].column_name
                                         /\ info[i].columns[j].type = cols[j].data_type
                                         /\ info[i].columns[j].nullable =
                                                (cols[j].is_nullable = "YES")]_vars

\* one get_schema has returned the empty snapshot after a failure and another
\* the full snapshot of two tables
C30_Witness ==
    \E r1, r2 \in Reqs :
        /\ rq[r1].pc = "gsi_store" /\ rq[r1].gs_raised
        /\ rq[r1].fetched = Some(EmptySchema)
        /\ rq[r2].pc = "gsi_store" /\ ~rq[r2].gs_raised
        /\ Len(rq[r2].fetched[1].tables) = 2
        /\ Len(rq[r2].fetched[1].tables[2].columns) = 2

====
